---------------------------- MODULE Spec2Model ----------------------------
(***************************************************************************)
(* State-machine model of the DIBO cafe admin console and reservation page *)
(* (React components over a Firestore document store).                     *)
(*                                                                         *)
(* A remote call (getDocs, addDoc, updateDoc, deleteDoc) is a suspension   *)
(* point of its async handler: the handler's part before the await is one  *)
(* action, and the resolution of the call (its effect on the store and the *)
(* rest of the handler, or its rejection and the catch block) is another.  *)
(* Calls in flight resolve in any order.                                   *)
(***************************************************************************)
EXTENDS Integers, Sequences, FiniteSets, Bags, TLC

VARIABLES
    mounted,      \* the page component that is mounted
    ops,          \* user events (clicks, input) handled so far
    toggled,      \* history: the entity whose featured/status toggle handler ran
                  \* in the last step, 0 after any other step
    lastIssue,    \* history: per entity id, the user event that last issued a
                  \* toggle write for it; under id 0, the user event that
                  \* last opened an add form
    \* ---- components/dashboard/ProductsManagement.tsx ----
    pStore,       \* Firestore collection "products": a set of documents
    products,     \* useState<Product[]>
    lastDoc,      \* useState<QueryDocumentSnapshot | null>
    loadingMore,  \* useState<boolean>
    fetching,     \* number of fetchProducts() calls whose getDocs is in flight
    loadCursor,   \* the startAfter() cursor of the loadMore() in flight
    showModal,    \* useState<boolean>
    editing,      \* useState<Product | null> (the product's id, 0 for null)
    form,         \* useState<FormState> (0: a form that fails validate())
    confirmOpen,  \* useState<boolean>
    toDeleteId,   \* useState<string | null> (0 for null)
    pWrites,      \* bag of addDoc/updateDoc/deleteDoc calls in flight
    clock,        \* new Date(): the logical time of the next handleSave
    toast,        \* the last react-toastify message the screen emitted
    fetchDone,    \* history: fetchProducts() resolutions so far (saturating at 2)
    \* ---- components/dashboard/ReviewsManagement.tsx ----
    rStore,       \* Firestore collection "reviews"
    reviews,      \* useState<Review[]>
    rLoading,     \* useState(false): loading
    rFetching,    \* fetchReviews()'s getDocs is in flight
    selectedReview, \* useState<Review | null>
    rWrites,      \* bag of updateDoc calls in flight
    rAlert,       \* the last alert() of the screen
    \* ---- components/dashboard/OffersManagement.tsx ----
    oStore,       \* Firestore collection "offers"
    offers,       \* useState<Offer[]>
    oFetching,    \* fetchOffers()'s getDocs is in flight
    oEditing,     \* useState<EditingState | null>
    oShowModal,   \* useState(false): showModal
    deleteTarget, \* useState<Offer | null> (the offer's id, 0 for null)
    oWrites,      \* bag of addDoc/updateDoc/deleteDoc calls in flight
    oNextId,      \* the id the store assigns to the next addDoc
    \* ---- pages/Reservation.tsx, one page per client ----
    resStore,     \* Firestore collection "reservations": documents per slot
    formData,     \* useState<ReservationData>: the (date, time) slot, 0 if unset
    loading,      \* useState<boolean>
    submitted,    \* useState<boolean>
    errorMsg,     \* useState<string>
    pc,           \* where the client's handleSubmit is suspended
    held,         \* the formData of the render handleSubmit runs in
    lastCheck,    \* history: what the attempt's availability query did
    peerChecked,  \* history, per client: at the last submit another client's
                  \* attempt for the same slot had its check answered available
                  \* and was in progress
    resOps,       \* user events handled so far, per client
    \* ---- layouts/DashboardLayout.tsx, components/ProtectedRoute.tsx ----
    dlLoading,        \* DashboardLayout: useState(true)
    isAuthenticated,  \* DashboardLayout: useState(false)
    prLoading,        \* ProtectedRoute: useState(true)
    user,             \* ProtectedRoute: useState<any>(null)
    location,         \* the router's current path
    authCb,           \* the onAuthStateChanged listener that is running
    authSeen,         \* history, per listener: what its last call delivered
    \* ---- OrdersManagement (components/dashboard/ReviewsManagement.tsx) ----
    editingOrder,     \* useState<Order | null>: the order in the modal, its items
    ordNextId,        \* Date.now() of the next addItem
    \* ---- pages/Home.tsx ----
    startIndex,       \* product/offer/reviewStartIndex, per carousel
    cardsPerView,     \* product/offer/reviewCardsPerView, per carousel
    itemCount,        \* products.length, offers.length, reviews.length
    homeFetching      \* the carousels whose getDocs is in flight

pVars == <<pStore, products, lastDoc, loadingMore, fetching, loadCursor,
           showModal, editing, form, confirmOpen, toDeleteId, pWrites,
           clock, toast, fetchDone>>

rVars == <<rStore, reviews, rLoading, rFetching, selectedReview, rWrites, rAlert>>

oVars == <<oStore, offers, oFetching, oEditing, oShowModal, deleteTarget, oWrites,
           oNextId>>

resVars == <<resStore, formData, loading, submitted, errorMsg, pc, held,
             lastCheck, peerChecked, resOps>>

aVars == <<dlLoading, isAuthenticated, prLoading, user, location, authCb, authSeen>>

ordVars == <<editingOrder, ordNextId>>

homeVars == <<startIndex, cardsPerView, itemCount, homeFetching>>

vars == <<mounted, ops, toggled, lastIssue, pVars, rVars, oVars, resVars, aVars, ordVars,
          homeVars>>

---------------------------------------------------------------------------
(* Bounds of the model *)
NumProducts == 7        \* documents in "products" when the screen mounts
MaxOps == 3             \* user events (clicks, input) in one session
MaxFetchInFlight == 1   \* fetchProducts() calls counted in flight (saturating)
NumPaging == 12         \* largest collection of the pagination scenario
NumSmall == 2           \* largest collection of the answered-fetch scenario
NumCatalogue == 2       \* products offered in an order item's select
NumCards == 4           \* largest list of a carousel of the home page
NumReviews == 7         \* documents in "reviews" when the screen mounts
NumOffers == 2          \* documents in "offers" when the screen mounts
NumSlots == 2           \* (date, time) slots a client can ask for

(* Program constants *)
PAGE_SIZE == 5
MAX_FEATURED == 6
REVIEWS_LIMIT == 6      \* currentFeatured.length >= 6 in the reviews screen

Min(a, b) == IF a < b THEN a ELSE b

---------------------------------------------------------------------------
(* Documents and the store's queries *)

\* type Product: id, createdAt, featured; name/category/price/description/img
\* are carried as one value, data.
Product(i, c, f, d) == [id |-> i, createdAt |-> c, featured |-> f, data |-> d]

\* lastDoc === null
NoDoc == [createdAt |-> 0, id |-> 0]

\* The position of a document snapshot in the query's order.
CursorOf(d) == [createdAt |-> d.createdAt, id |-> d.id]

\* orderBy("createdAt", "desc"): a comes before b.  The query names no second
\* sort key; Firestore then orders equal createdAt by document id in the
\* direction of the last orderBy, that is descending.
Before(a, b) ==
    \/ a.createdAt > b.createdAt
    \/ a.createdAt = b.createdAt /\ a.id > b.id

RECURSIVE Ordered(_)
Ordered(S) ==
    IF S = {} THEN <<>>
    ELSE LET m == CHOOSE x \in S : \A y \in S \ {x} : Before(x, y)
         IN  <<m>> \o Ordered(S \ {m})

\* limit(n)
Take(s, n) == SubSeq(s, 1, Min(n, Len(s)))

\* query(collection, orderBy("createdAt","desc"), [startAfter(cursor)], limit(PAGE_SIZE))
QueryPage(S, cursor) ==
    Take(Ordered({d \in S : cursor = NoDoc \/ Before(cursor, d)}), PAGE_SIZE)

\* normalizeDoc: the Product built from a document snapshot
normalizeDoc(d) == Product(d.id, d.createdAt, d.featured, d.data)

\* snapshot.docs.length ? snapshot.docs[snapshot.docs.length - 1] : null
LastOf(page) == IF Len(page) > 0 THEN CursorOf(page[Len(page)]) ELSE NoDoc

Ids(s) == {s[i].id : i \in 1..Len(s)}

\* products.filter(p => p.featured).length
FeaturedCount(s) == Cardinality({i \in 1..Len(s) : s[i].featured})

---------------------------------------------------------------------------
(* ProductsManagement.tsx *)

\* The products the admin clicks on (a bound on the inputs).
Acted == {1, NumProducts}

\* form values: 0 fails validate(), 1 is the stored text, 2 an edited text
FormValues == {0, 1, 2}

\* A remote write in flight, with what its handler holds across the await.
\* snap is the products array of the render the handler ran in
\* (handleDelete's prevSnapshot).
\* The user event that last issued a toggle write for entity i, 0 if none
LastIssueOf(i) == IF i \in DOMAIN lastIssue THEN lastIssue[i] ELSE 0

\* at and prev are history: the user event that issued a toggle write and the
\* one that issued the previous toggle write for the same entity.
Write(k, i, v, d, c, s) ==
    [kind |-> k, id |-> i, val |-> v, data |-> d, createdAt |-> c, snap |-> s,
     at |-> 0, prev |-> 0]

ToggleWrite(k, i, v, s) ==
    [kind |-> k, id |-> i, val |-> v, data |-> 0, createdAt |-> 0, snap |-> s,
     at |-> ops + 1, prev |-> LastIssueOf(i)]

\* A user event: one more of the session's MaxOps
UserEvent == ops < MaxOps /\ ops' = ops + 1

\* A step other than a toggle handler's call
Untoggled == toggled' = 0 /\ UNCHANGED lastIssue

\* A toggle handler ran on entity i and issued a write / issued none
ToggledIssuing(i) == toggled' = i /\ lastIssue' = (i :> (ops + 1)) @@ lastIssue
ToggledRefused(i) == toggled' = i /\ UNCHANGED lastIssue

\* The add button opened an empty form (history: remembered under id 0)
FormOpened == toggled' = 0 /\ lastIssue' = (0 :> (ops + 1)) @@ lastIssue

\* A create write, tagged (history) with the opening of the add form it came from
CreateOf(w) == [w EXCEPT !.prev = LastIssueOf(0)]

Issue(b, w) == b (+) SetToBag({w})
Settle(b, w) == b (-) SetToBag({w})

\* useEffect(() => { fetchProducts(); fetchCategories(); }, ) has no dependency
\* array: it runs after every render, so every change of the component's
\* state starts another fetchProducts().
EffectFetch(n) == Min(n + 1, MaxFetchInFlight)

\* A modal dialog covers the page: the rows and buttons behind it take no click.
PageClickable == ~showModal /\ ~confirmOpen

StoreHas(S, i) == \E d \in S : d.id = i

\* The entry of a list with id i: the list with it replaced by q
\* The list left as it is: the optimistic setProducts missing
ReplaceNothing(s, i, q) == s

ReplaceById(s, i, q) == [k \in 1..Len(s) |-> IF s[k].id = i THEN q ELSE s[k]]

\* const snapshot = await getDocs(q); setProducts(items); setLastDoc(...)
FetchProductsOK ==
    /\ mounted = "products"
    /\ fetching > 0
    /\ LET page == QueryPage(pStore, NoDoc)
       IN  /\ products' = [i \in 1..Len(page) |-> normalizeDoc(page[i])]
           /\ lastDoc' = LastOf(page)
    /\ fetching' = EffectFetch(fetching - 1)
    /\ fetchDone' = Min(fetchDone + 1, 2)
    /\ Untoggled
    /\ UNCHANGED <<aVars, ordVars, homeVars, oVars, resVars, rVars, mounted, ops, pStore, loadingMore, loadCursor, showModal, editing,
                   form, confirmOpen, toDeleteId, pWrites, clock, toast>>

\* catch: toast.error (no state of the component changes: no render)
FetchProductsFail ==
    /\ mounted = "products"
    /\ fetching > 0
    /\ fetching' = fetching - 1
    /\ toast' = "fetchFailed"
    /\ Untoggled
    /\ UNCHANGED <<aVars, ordVars, homeVars, oVars, resVars, rVars, mounted, ops, pStore, products, lastDoc, loadingMore, loadCursor,
                   showModal, editing, form, confirmOpen, toDeleteId, pWrites,
                   clock, fetchDone>>

\* loadMore up to its await; the button is rendered only while lastDoc is set
\* and is disabled while loadingMore
LoadMoreStart ==
    /\ mounted = "products"
    /\ UserEvent
    /\ PageClickable
    /\ lastDoc # NoDoc
    /\ ~loadingMore
    /\ loadingMore' = TRUE
    /\ loadCursor' = lastDoc
    /\ fetching' = EffectFetch(fetching)
    /\ Untoggled
    /\ UNCHANGED <<aVars, ordVars, homeVars, oVars, resVars, rVars, mounted, pStore, products, lastDoc, showModal, editing, form,
                   confirmOpen, toDeleteId, pWrites, clock, toast, fetchDone>>

\* setProducts((prev) => [...prev, ...items])
AppendPage(prev, items) == prev \o items

LoadMoreOK ==
    /\ mounted = "products"
    /\ loadCursor # NoDoc
    /\ LET page == QueryPage(pStore, loadCursor)
       IN  IF Len(page) > 0
           THEN /\ products' = AppendPage(products,
                                  [i \in 1..Len(page) |-> normalizeDoc(page[i])])
                /\ lastDoc' = LastOf(page)
           ELSE /\ products' = products
                /\ lastDoc' = NoDoc
    /\ loadingMore' = FALSE
    /\ loadCursor' = NoDoc
    /\ fetching' = EffectFetch(fetching)
    /\ Untoggled
    /\ UNCHANGED <<aVars, ordVars, homeVars, oVars, resVars, rVars, mounted, ops, pStore, showModal, editing, form, confirmOpen,
                   toDeleteId, pWrites, clock, toast, fetchDone>>

LoadMoreFail ==
    /\ mounted = "products"
    /\ loadCursor # NoDoc
    /\ toast' = "loadMoreFailed"
    /\ loadingMore' = FALSE
    /\ loadCursor' = NoDoc
    /\ fetching' = EffectFetch(fetching)
    /\ Untoggled
    /\ UNCHANGED <<aVars, ordVars, homeVars, oVars, resVars, rVars, mounted, ops, pStore, products, lastDoc, showModal, editing, form,
                   confirmOpen, toDeleteId, pWrites, clock, fetchDone>>

\* The limit test with > where the handler has >=
FeaturedLimitOffByOne(p, list) ==
    ~p.featured /\ FeaturedCount(list) > MAX_FEATURED

\* if (!product.featured && currentFeaturedCount >= MAX_FEATURED)
FeaturedLimitReached(p, list) ==
    ~p.featured /\ FeaturedCount(list) >= MAX_FEATURED

\* toggleFeatured(product) up to its await, product being a row of the
\* current render
ToggleFeatured(k) ==
    /\ mounted = "products"
    /\ UserEvent
    /\ PageClickable
    /\ k \in 1..Len(products)
    /\ products[k].id \in Acted
    /\ LET p == products[k]
           updated == [p EXCEPT !.featured = ~p.featured]
       IN  IF FeaturedLimitReached(p, products)
           THEN /\ toast' = "featuredLimit"
                /\ ToggledRefused(p.id)
                /\ UNCHANGED <<products, pWrites, fetching>>
           ELSE /\ products' = ReplaceById(products, p.id, updated)
                /\ pWrites' = Issue(pWrites,
                       ToggleWrite("toggle", p.id, updated.featured, products))
                /\ ToggledIssuing(p.id)
                /\ fetching' = EffectFetch(fetching)
                /\ UNCHANGED toast
    /\ UNCHANGED <<aVars, ordVars, homeVars, oVars, resVars, rVars, mounted, pStore, lastDoc, loadingMore, loadCursor, showModal,
                   editing, form, confirmOpen, toDeleteId, clock, fetchDone>>

\* await updateDoc(ref, { featured: updated.featured }) resolved; updateDoc
\* rejects when the document does not exist
ToggleFeaturedOK(w) ==
    /\ mounted = "products"
    /\ BagIn(w, pWrites) /\ w.kind = "toggle"
    /\ StoreHas(pStore, w.id)
    /\ pStore' = {IF d.id = w.id THEN [d EXCEPT !.featured = w.val] ELSE d : d \in pStore}
    /\ pWrites' = Settle(pWrites, w)
    /\ toast' = IF w.val THEN "featured" ELSE "unfeatured"
    /\ Untoggled
    /\ UNCHANGED <<aVars, ordVars, homeVars, oVars, resVars, rVars, mounted, ops, products, lastDoc, loadingMore, fetching, loadCursor,
                   showModal, editing, form, confirmOpen, toDeleteId, clock,
                   fetchDone>>

\* catch (err): console.error and toast.error only
ToggleFeaturedFail(w) ==
    /\ mounted = "products"
    /\ BagIn(w, pWrites) /\ w.kind = "toggle"
    /\ pWrites' = Settle(pWrites, w)
    /\ toast' = "toggleFailed"
    /\ Untoggled
    /\ UNCHANGED <<aVars, ordVars, homeVars, oVars, resVars, rVars, mounted, ops, pStore, products, lastDoc, loadingMore, fetching,
                   loadCursor, showModal, editing, form, confirmOpen, toDeleteId,
                   clock, fetchDone>>

openAdd ==
    /\ mounted = "products"
    /\ UserEvent
    /\ PageClickable
    /\ editing' = 0
    /\ form' = 0
    /\ showModal' = TRUE
    /\ fetching' = EffectFetch(fetching)
    /\ FormOpened
    /\ UNCHANGED <<aVars, ordVars, homeVars, oVars, resVars, rVars, mounted, pStore, products, lastDoc, loadingMore, loadCursor,
                   confirmOpen, toDeleteId, pWrites, clock, toast, fetchDone>>

openEdit(k) ==
    /\ mounted = "products"
    /\ UserEvent
    /\ PageClickable
    /\ k \in 1..Len(products)
    /\ products[k].id \in Acted
    /\ editing' = products[k].id
    /\ form' = products[k].data
    /\ showModal' = TRUE
    /\ fetching' = EffectFetch(fetching)
    /\ Untoggled
    /\ UNCHANGED <<aVars, ordVars, homeVars, oVars, resVars, rVars, mounted, pStore, products, lastDoc, loadingMore, loadCursor,
                   confirmOpen, toDeleteId, pWrites, clock, toast, fetchDone>>

\* onChange of the modal's inputs: setForm
EditForm(d) ==
    /\ mounted = "products"
    /\ UserEvent
    /\ showModal
    /\ d \in FormValues /\ d # form
    /\ form' = d
    /\ fetching' = EffectFetch(fetching)
    /\ Untoggled
    /\ UNCHANGED <<aVars, ordVars, homeVars, oVars, resVars, rVars, mounted, pStore, products, lastDoc, loadingMore, loadCursor,
                   showModal, editing, confirmOpen, toDeleteId, pWrites, clock,
                   toast, fetchDone>>

\* onHide / the cancel button: setShowModal(false)
CloseModal ==
    /\ mounted = "products"
    /\ UserEvent
    /\ showModal
    /\ showModal' = FALSE
    /\ fetching' = EffectFetch(fetching)
    /\ Untoggled
    /\ UNCHANGED <<aVars, ordVars, homeVars, oVars, resVars, rVars, mounted, pStore, products, lastDoc, loadingMore, loadCursor,
                   editing, form, confirmOpen, toDeleteId, pWrites, clock, toast,
                   fetchDone>>

\* { ...p, ...productData }: productData carries createdAt: new Date() and
\* featured: false beside the form's fields
MergeProductData(p, d, now) ==
    [p EXCEPT !.data = d, !.createdAt = now, !.featured = FALSE]

\* handleSave up to its await
handleSave ==
    /\ mounted = "products"
    /\ UserEvent
    /\ showModal
    /\ IF form = 0
       THEN \* validate() fails: setErrors(e) and return
            /\ fetching' = EffectFetch(fetching)
            /\ UNCHANGED <<products, pWrites, clock>>
       ELSE /\ clock' = clock + 1
            /\ IF editing # 0
               THEN /\ products' = [k \in 1..Len(products) |->
                                      IF products[k].id = editing
                                      THEN MergeProductData(products[k], form, clock)
                                      ELSE products[k]]
                    /\ pWrites' = Issue(pWrites,
                           Write("update", editing, FALSE, form, clock, products))
                    /\ fetching' = EffectFetch(fetching)
               ELSE /\ pWrites' = Issue(pWrites,
                           CreateOf(Write("create", clock, FALSE, form, clock, products)))
                    /\ UNCHANGED <<products, fetching>>
    /\ Untoggled
    /\ UNCHANGED <<aVars, ordVars, homeVars, oVars, resVars, rVars, mounted, pStore, lastDoc, loadingMore, loadCursor, showModal,
                   editing, form, confirmOpen, toDeleteId, toast, fetchDone>>

\* await updateDoc(ref, { ...productData, createdAt }) resolved
SaveEditOK(w) ==
    /\ mounted = "products"
    /\ BagIn(w, pWrites) /\ w.kind = "update"
    /\ StoreHas(pStore, w.id)
    /\ pStore' = {IF d.id = w.id THEN MergeProductData(d, w.data, w.createdAt)
                   ELSE d : d \in pStore}
    /\ pWrites' = Settle(pWrites, w)
    /\ toast' = "edited"
    /\ showModal' = FALSE
    /\ fetching' = EffectFetch(fetching)
    /\ Untoggled
    /\ UNCHANGED <<aVars, ordVars, homeVars, oVars, resVars, rVars, mounted, ops, products, lastDoc, loadingMore, loadCursor, editing,
                   form, confirmOpen, toDeleteId, clock, fetchDone>>

\* setProducts((prev) => [{ id: docRef.id, ...productData }, ...prev])
\* The created product added without the store's id
PrependWithoutId(prev, q) == <<[q EXCEPT !.id = 0]>> \o prev

PrependCreated(prev, q) == <<q>> \o prev

\* const docRef = await addDoc(...) resolved: the store assigned w.id
SaveCreateOK(w) ==
    /\ mounted = "products"
    /\ BagIn(w, pWrites) /\ w.kind = "create"
    /\ pStore' = pStore \cup {Product(w.id, w.createdAt, FALSE, w.data)}
    /\ products' = PrependCreated(products, Product(w.id, w.createdAt, FALSE, w.data))
    /\ pWrites' = Settle(pWrites, w)
    /\ toast' = "added"
    /\ showModal' = FALSE
    /\ fetching' = EffectFetch(fetching)
    /\ Untoggled
    /\ UNCHANGED <<aVars, ordVars, homeVars, oVars, resVars, rVars, mounted, ops, lastDoc, loadingMore, loadCursor, editing, form,
                   confirmOpen, toDeleteId, clock, fetchDone>>

\* catch (error): toast.error; await fetchProducts(): the handler stays
\* suspended on the getDocs of that call
SaveFail(w) ==
    /\ mounted = "products"
    /\ BagIn(w, pWrites) /\ w.kind \in {"update", "create"}
    /\ pWrites' = Issue(Settle(pWrites, w), [w EXCEPT !.kind = "refetch"])
    /\ toast' = "saveFailed"
    /\ UNCHANGED fetching
    /\ Untoggled
    /\ UNCHANGED <<aVars, ordVars, homeVars, oVars, resVars, rVars, mounted, ops, pStore, products, lastDoc, loadingMore, loadCursor,
                   showModal, editing, form, confirmOpen, toDeleteId, clock,
                   fetchDone>>

\* the fetchProducts() of handleSave's catch resolved: as FetchProductsOK,
\* and handleSave returns
SaveRefetchOK(w) ==
    /\ mounted = "products"
    /\ BagIn(w, pWrites) /\ w.kind = "refetch"
    /\ LET page == QueryPage(pStore, NoDoc)
       IN  /\ products' = [i \in 1..Len(page) |-> normalizeDoc(page[i])]
           /\ lastDoc' = LastOf(page)
    /\ pWrites' = Settle(pWrites, w)
    /\ fetching' = EffectFetch(fetching)
    /\ fetchDone' = Min(fetchDone + 1, 2)
    /\ Untoggled
    /\ UNCHANGED <<aVars, ordVars, homeVars, oVars, resVars, rVars, mounted, ops, pStore, loadingMore,
                   loadCursor, showModal, editing, form, confirmOpen, toDeleteId,
                   clock, toast>>

\* ... rejected: fetchProducts' own catch, and handleSave returns
SaveRefetchFail(w) ==
    /\ mounted = "products"
    /\ BagIn(w, pWrites) /\ w.kind = "refetch"
    /\ pWrites' = Settle(pWrites, w)
    /\ toast' = "fetchFailed"
    /\ Untoggled
    /\ UNCHANGED <<aVars, ordVars, homeVars, oVars, resVars, rVars, mounted, ops, pStore, products, lastDoc,
                   loadingMore, fetching, loadCursor, showModal, editing, form,
                   confirmOpen, toDeleteId, clock, fetchDone>>

\* the trash button: setToDeleteId(p.id); setConfirmOpen(true)
AskDelete(k) ==
    /\ mounted = "products"
    /\ UserEvent
    /\ PageClickable
    /\ k \in 1..Len(products)
    /\ products[k].id \in Acted
    /\ toDeleteId' = products[k].id
    /\ confirmOpen' = TRUE
    /\ fetching' = EffectFetch(fetching)
    /\ Untoggled
    /\ UNCHANGED <<aVars, ordVars, homeVars, oVars, resVars, rVars, mounted, pStore, products, lastDoc, loadingMore, loadCursor,
                   showModal, editing, form, pWrites, clock, toast, fetchDone>>

\* onHide / the cancel button of the confirmation: setConfirmOpen(false)
CancelDelete ==
    /\ mounted = "products"
    /\ UserEvent
    /\ confirmOpen
    /\ confirmOpen' = FALSE
    /\ fetching' = EffectFetch(fetching)
    /\ Untoggled
    /\ UNCHANGED <<aVars, ordVars, homeVars, oVars, resVars, rVars, mounted, pStore, products, lastDoc, loadingMore, loadCursor,
                   showModal, editing, form, toDeleteId, pWrites, clock, toast,
                   fetchDone>>

\* setProducts((prev) => prev.filter((p) => p.id !== toDeleteId))
RemoveById(prev, i) == SelectSeq(prev, LAMBDA p : p.id # i)

\* handleDelete up to its await
handleDelete ==
    /\ mounted = "products"
    /\ UserEvent
    /\ confirmOpen
    /\ toDeleteId # 0
    /\ products' = RemoveById(products, toDeleteId)
    /\ pWrites' = Issue(pWrites, Write("delete", toDeleteId, FALSE, 0, 0, products))
    /\ fetching' = EffectFetch(fetching)
    /\ Untoggled
    /\ UNCHANGED <<aVars, ordVars, homeVars, oVars, resVars, rVars, mounted, pStore, lastDoc, loadingMore, loadCursor, showModal,
                   editing, form, confirmOpen, toDeleteId, clock, toast, fetchDone>>

\* await deleteDoc(...) resolved; finally
DeleteOK(w) ==
    /\ mounted = "products"
    /\ BagIn(w, pWrites) /\ w.kind = "delete"
    /\ pStore' = {d \in pStore : d.id # w.id}
    /\ pWrites' = Settle(pWrites, w)
    /\ toast' = "deleted"
    /\ toDeleteId' = 0
    /\ confirmOpen' = FALSE
    /\ fetching' = EffectFetch(fetching)
    /\ Untoggled
    /\ UNCHANGED <<aVars, ordVars, homeVars, oVars, resVars, rVars, mounted, ops, products, lastDoc, loadingMore, loadCursor, showModal,
                   editing, form, clock, fetchDone>>

\* catch: setProducts(prevSnapshot)
\* The removed entity put back at the end of the list
RestoreAppended(prevSnapshot, current) ==
    current \o SelectSeq(prevSnapshot, LAMBDA q : q.id \notin Ids(current))

RestoreSnapshot(prevSnapshot, current) == prevSnapshot

\* catch (error): toast.error; setProducts(prevSnapshot); finally
DeleteFail(w) ==
    /\ mounted = "products"
    /\ BagIn(w, pWrites) /\ w.kind = "delete"
    /\ products' = RestoreSnapshot(w.snap, products)
    /\ pWrites' = Settle(pWrites, w)
    /\ toast' = "deleteFailed"
    /\ toDeleteId' = 0
    /\ confirmOpen' = FALSE
    /\ fetching' = EffectFetch(fetching)
    /\ Untoggled
    /\ UNCHANGED <<aVars, ordVars, homeVars, oVars, resVars, rVars, mounted, ops, pStore, lastDoc, loadingMore, loadCursor, showModal,
                   editing, form, clock, fetchDone>>

\* ---- OrdersManagement: the order being edited ----
\* type OrderItem { id, productId, name, price, quantity }; "" is 0
OrderItem(i, pr, n, c, q) ==
    [id |-> i, productId |-> pr, name |-> n, price |-> c, quantity |-> q]

\* handleShowModal(): a new order, items: []
IdleOrders ==
    /\ editingOrder = [items |-> <<>>]
    /\ ordNextId = 1

\* ---- Home: the three carousels ----
Carousels == {"product", "offer", "review"}

\* width < 768 ? 1 : 3 (products, reviews), width < 768 ? 1 : 2 (offers)
CardsFor(c, narrow) == IF narrow THEN 1 ELSE IF c = "offer" THEN 2 ELSE 3

\* useState(0), useState(3) / useState(2), useState([]) and the first
\* handleResize() of the effect, here on a wide window
IdleHome ==
    /\ startIndex = [c \in Carousels |-> 0]
    /\ cardsPerView = [c \in Carousels |-> CardsFor(c, FALSE)]
    /\ itemCount = [c \in Carousels |-> 0]
    /\ homeFetching = {}

\* ---- the guards of the dashboard routes ----
Users == {"null", "admin"}
Listeners == {"DashboardLayout", "ProtectedRoute"}

SignedInAlways(u) == TRUE

\* if (user) in the listener, if (!user) in the render
SignedIn(u) == u # "null"

\* The guards as mounted: useState(true), useState(false), useState(null)
FreshGuards ==
    /\ dlLoading = TRUE
    /\ isAuthenticated = FALSE
    /\ prLoading = TRUE
    /\ user = "null"
    /\ authCb = "none"
    /\ authSeen = [l \in Listeners |-> "unknown"]

\* The guards' variables while a page's own handlers are examined
IdleGuards == FreshGuards /\ location = "/dashboard"

\* The reviews screen's variables while another page is mounted
IdleReviews ==
    /\ rStore = {}
    /\ reviews = <<>>
    /\ rLoading = FALSE
    /\ rFetching = FALSE
    /\ selectedReview = [id |-> 0, featured |-> FALSE]
    /\ rWrites = EmptyBag
    /\ rAlert = "none"

\* type Offer: title, description, discountPercentage and the dates are
\* carried as one value, data
Offer(i, st, d) == [id |-> i, status |-> st, data |-> d]

\* editing === null
NoEditing == Offer(0, "none", 0)

\* The offers screen's variables while another page is mounted
IdleOffers ==
    /\ oStore = {}
    /\ offers = <<>>
    /\ oFetching = FALSE
    /\ oEditing = NoEditing
    /\ oShowModal = FALSE
    /\ deleteTarget = 0
    /\ oWrites = EmptyBag
    /\ oNextId = 1

\* The clients of the public reservation page
Clients == {"A", "B"}

\* The reservation pages before any input
FreshReservation ==
    /\ formData = [c \in Clients |-> 0]
    /\ loading = [c \in Clients |-> FALSE]
    /\ submitted = [c \in Clients |-> FALSE]
    /\ errorMsg = [c \in Clients |-> ""]
    /\ pc = [c \in Clients |-> "idle"]
    /\ held = [c \in Clients |-> 0]
    /\ lastCheck = [c \in Clients |-> "none"]
    /\ peerChecked = [c \in Clients |-> FALSE]
    /\ resOps = [c \in Clients |-> 0]

\* The reservation page's variables while another page is mounted
IdleReservation ==
    /\ resStore = [sl \in 1..NumSlots |-> 0]
    /\ FreshReservation

\* The documents of "products" at mount: ids 1..n created in that order,
\* those of F featured.
InitialStore(n, F) == {Product(i, i, i \in F, 1) : i \in 1..n}

\* Featured sets the store starts with: none, the MAX_FEATURED oldest.
InitFeatured == {{}, 1..MAX_FEATURED}

\* The screen after its first render and effect: fetchProducts() in flight.
MountProducts ==
    /\ products = <<>>
    /\ lastDoc = NoDoc
    /\ loadingMore = FALSE
    /\ fetching = 1
    /\ loadCursor = NoDoc
    /\ showModal = FALSE
    /\ editing = 0
    /\ form = 0
    /\ confirmOpen = FALSE
    /\ toDeleteId = 0
    /\ pWrites = EmptyBag
    /\ toast = "none"
    /\ fetchDone = 0

\* The products screen's variables while another page is mounted
IdleProducts ==
    /\ pStore = {}
    /\ clock = 1
    /\ MountProducts

InitProducts ==
    /\ toggled = 0
    /\ lastIssue = <<>>
    /\ mounted = "products"
    /\ \E F \in InitFeatured : pStore = InitialStore(NumProducts, F)
    /\ clock = NumProducts + 1
    /\ ops = 0
    /\ MountProducts
    /\ IdleReviews
    /\ IdleOffers
    /\ IdleReservation
    /\ IdleGuards
    /\ IdleOrders
    /\ IdleHome

NextProducts ==
    \/ FetchProductsOK
    \/ FetchProductsFail
    \/ LoadMoreStart
    \/ LoadMoreOK
    \/ LoadMoreFail
    \/ \E k \in 1..Len(products) : ToggleFeatured(k)
    \/ \E w \in BagToSet(pWrites) : ToggleFeaturedOK(w)
    \/ \E w \in BagToSet(pWrites) : ToggleFeaturedFail(w)
    \/ openAdd
    \/ \E k \in 1..Len(products) : openEdit(k)
    \/ \E d \in FormValues : EditForm(d)
    \/ CloseModal
    \/ handleSave
    \/ \E w \in BagToSet(pWrites) : SaveEditOK(w)
    \/ \E w \in BagToSet(pWrites) : SaveCreateOK(w)
    \/ \E w \in BagToSet(pWrites) : SaveFail(w)
    \/ \E w \in BagToSet(pWrites) : SaveRefetchOK(w)
    \/ \E w \in BagToSet(pWrites) : SaveRefetchFail(w)
    \/ \E k \in 1..Len(products) : AskDelete(k)
    \/ CancelDelete
    \/ handleDelete
    \/ \E w \in BagToSet(pWrites) : DeleteOK(w)
    \/ \E w \in BagToSet(pWrites) : DeleteFail(w)

SpecProducts == InitProducts /\ [][NextProducts]_vars

\* A "products" collection of n documents; with ties, consecutive documents
\* share a createdAt in pairs.
PagingStore(n, ties) ==
    {Product(i, IF ties THEN (i + 1) \div 2 ELSE i, FALSE, 1) : i \in 1..n}

\* The products screen over a collection of any size up to NumPaging
InitPaging ==
    /\ toggled = 0
    /\ lastIssue = <<>>
    /\ mounted = "products"
    /\ \E n \in 0..NumPaging, ties \in BOOLEAN : pStore = PagingStore(n, ties)
    /\ clock = NumPaging + 1
    /\ ops = 0
    /\ MountProducts
    /\ IdleReviews
    /\ IdleOffers
    /\ IdleReservation
    /\ IdleGuards
    /\ IdleOrders
    /\ IdleHome

\* The screen used for paging only: fetchProducts and loadMore
NextPaging ==
    \/ FetchProductsOK
    \/ FetchProductsFail
    \/ LoadMoreStart
    \/ LoadMoreOK
    \/ LoadMoreFail

SpecPaging == InitPaging /\ [][NextPaging]_vars

\* The products screen over a store of at most NumSmall products, with a store
\* that answers every fetchProducts (the effect's query): an answer that
\* changes the screen is not withheld for ever.
InitSmallStore ==
    /\ toggled = 0
    /\ lastIssue = <<>>
    /\ mounted = "products"
    /\ \E n \in 0..NumSmall : pStore = PagingStore(n, FALSE)
    /\ clock = NumSmall + 1
    /\ ops = 0
    /\ MountProducts
    /\ IdleReviews
    /\ IdleOffers
    /\ IdleReservation
    /\ IdleGuards
    /\ IdleOrders
    /\ IdleHome

SpecAnsweredFetch == InitSmallStore /\ [][NextProducts]_vars /\ WF_vars(FetchProductsOK)

---------------------------------------------------------------------------
(* ReviewsManagement.tsx: the fields of a review other than id and featured
   play no part in the handlers *)

Review(i, f) == [id |-> i, featured |-> f]

\* selectedReview === null
NoReview == Review(0, FALSE)

\* getDocs(collection(db, "reviews")): no orderBy, the documents come in
\* ascending id
RECURSIVE ById(_)
ById(S) ==
    IF S = {} THEN <<>>
    ELSE LET m == CHOOSE x \in S : \A y \in S : x.id <= y.id
         IN  <<m>> \o ById(S \ {m})

\* const snap = await getDocs(...); setReviews(data); finally setLoading(false)
FetchReviewsOK ==
    /\ mounted = "reviews"
    /\ rFetching
    /\ reviews' = ById(rStore)
    /\ rLoading' = FALSE
    /\ rFetching' = FALSE
    /\ Untoggled
    /\ UNCHANGED <<aVars, ordVars, homeVars, oVars, resVars, pVars, mounted, ops, rStore, selectedReview, rWrites, rAlert>>

FetchReviewsFail ==
    /\ mounted = "reviews"
    /\ rFetching
    /\ rLoading' = FALSE
    /\ rFetching' = FALSE
    /\ Untoggled
    /\ UNCHANGED <<aVars, ordVars, homeVars, oVars, resVars, pVars, mounted, ops, rStore, reviews, selectedReview, rWrites,
                   rAlert>>

\* the card's button: setSelectedReview(review); the cards are rendered when
\* loading is false, and the details modal covers them
SelectReview(k) ==
    /\ mounted = "reviews"
    /\ UserEvent
    /\ ~rLoading
    /\ selectedReview = NoReview
    /\ k \in 1..Len(reviews)
    /\ selectedReview' = reviews[k]
    /\ Untoggled
    /\ UNCHANGED <<aVars, ordVars, homeVars, oVars, resVars, pVars, mounted, rStore, reviews, rLoading, rFetching, rWrites,
                   rAlert>>

\* onHide / the close button: setSelectedReview(null)
CloseReview ==
    /\ mounted = "reviews"
    /\ UserEvent
    /\ selectedReview # NoReview
    /\ selectedReview' = NoReview
    /\ Untoggled
    /\ UNCHANGED <<aVars, ordVars, homeVars, oVars, resVars, pVars, mounted, rStore, reviews, rLoading, rFetching, rWrites,
                   rAlert>>

\* if (newFeatured && currentFeatured.length >= 6)
ReviewLimitReached(review, list) ==
    ~review.featured /\ FeaturedCount(list) >= REVIEWS_LIMIT

\* the modal's button: toggleFeatured(selectedReview) up to its await, then
\* setSelectedReview(null)
ReviewToggleFeatured ==
    /\ mounted = "reviews"
    /\ UserEvent
    /\ selectedReview # NoReview
    /\ IF ReviewLimitReached(selectedReview, reviews)
       THEN /\ rAlert' = "limit"
            /\ ToggledRefused(selectedReview.id)
            /\ UNCHANGED rWrites
       ELSE /\ rWrites' = Issue(rWrites, ToggleWrite("toggle",
                   selectedReview.id, ~selectedReview.featured, <<>>))
            /\ ToggledIssuing(selectedReview.id)
            /\ UNCHANGED rAlert
    /\ selectedReview' = NoReview
    /\ UNCHANGED <<aVars, ordVars, homeVars, oVars, resVars, pVars, mounted, rStore, reviews, rLoading, rFetching>>

\* await updateDoc(...) resolved; setReviews(prev => prev.map(...))
ReviewToggleOK(w) ==
    /\ mounted = "reviews"
    /\ BagIn(w, rWrites)
    /\ StoreHas(rStore, w.id)
    /\ rStore' = {IF d.id = w.id THEN [d EXCEPT !.featured = w.val] ELSE d : d \in rStore}
    /\ reviews' = [k \in 1..Len(reviews) |->
                      IF reviews[k].id = w.id
                      THEN [reviews[k] EXCEPT !.featured = w.val]
                      ELSE reviews[k]]
    /\ rWrites' = Settle(rWrites, w)
    /\ Untoggled
    /\ UNCHANGED <<aVars, ordVars, homeVars, oVars, resVars, pVars, mounted, ops, rLoading, rFetching, selectedReview, rAlert>>

\* catch (err): console.error only
ReviewToggleFail(w) ==
    /\ mounted = "reviews"
    /\ BagIn(w, rWrites)
    /\ rWrites' = Settle(rWrites, w)
    /\ Untoggled
    /\ UNCHANGED <<aVars, ordVars, homeVars, oVars, resVars, pVars, mounted, ops, rStore, reviews, rLoading, rFetching,
                   selectedReview, rAlert>>

\* Featured sets the reviews collection starts with
InitFeaturedReviews == {1..3, 1..(REVIEWS_LIMIT - 1), 1..REVIEWS_LIMIT}

\* The screen after its first render and effect: fetchReviews() in flight
InitReviews ==
    /\ toggled = 0
    /\ lastIssue = <<>>
    /\ mounted = "reviews"
    /\ ops = 0
    /\ \E F \in InitFeaturedReviews : rStore = {Review(i, i \in F) : i \in 1..NumReviews}
    /\ reviews = <<>>
    /\ rLoading = TRUE
    /\ rFetching = TRUE
    /\ selectedReview = NoReview
    /\ rWrites = EmptyBag
    /\ rAlert = "none"
    /\ IdleProducts
    /\ IdleOffers
    /\ IdleReservation
    /\ IdleGuards
    /\ IdleOrders
    /\ IdleHome

NextReviews ==
    \/ FetchReviewsOK
    \/ FetchReviewsFail
    \/ \E k \in 1..Len(reviews) : SelectReview(k)
    \/ CloseReview
    \/ ReviewToggleFeatured
    \/ \E w \in BagToSet(rWrites) : ReviewToggleOK(w)
    \/ \E w \in BagToSet(rWrites) : ReviewToggleFail(w)

SpecReviews == InitReviews /\ [][NextReviews]_vars

---------------------------------------------------------------------------
(* OffersManagement.tsx *)

\* The cards take clicks when neither modal is shown
OffersClickable == ~oShowModal /\ deleteTarget = 0

OfferWrite(k, o) ==
    [kind |-> k, id |-> o.id, status |-> o.status, data |-> o.data,
     at |-> 0, prev |-> 0]

StatusWrite(i, st) ==
    [kind |-> "status", id |-> i, status |-> st, data |-> 0,
     at |-> ops + 1, prev |-> LastIssueOf(i)]

\* const snap = await getDocs(collection(db, "offers")); setOffers(data)
FetchOffersOK ==
    /\ mounted = "offers"
    /\ oFetching
    /\ offers' = ById(oStore)
    /\ oFetching' = FALSE
    /\ Untoggled
    /\ UNCHANGED <<aVars, ordVars, homeVars, resVars, pVars, rVars, mounted, ops, oStore, oEditing,
                   oShowModal, deleteTarget, oWrites, oNextId>>

FetchOffersFail ==
    /\ mounted = "offers"
    /\ oFetching
    /\ oFetching' = FALSE
    /\ Untoggled
    /\ UNCHANGED <<aVars, ordVars, homeVars, resVars, pVars, rVars, mounted, ops, oStore, offers, oEditing,
                   oShowModal, deleteTarget, oWrites, oNextId>>

\* const newStatus = offer.status === "active" ? "inactive" : "active"
NewStatus(offer) == IF offer.status = "active" THEN "inactive" ELSE "active"

\* toggleStatus(offer) up to its await, offer being a card of the current render
toggleStatus(k) ==
    /\ mounted = "offers"
    /\ UserEvent
    /\ OffersClickable
    /\ k \in 1..Len(offers)
    /\ oWrites' = Issue(oWrites, StatusWrite(offers[k].id, NewStatus(offers[k])))
    /\ ToggledIssuing(offers[k].id)
    /\ UNCHANGED <<aVars, ordVars, homeVars, resVars, pVars, rVars, mounted, oStore, offers, oFetching,
                   oEditing, oShowModal, deleteTarget, oNextId>>

\* await updateDoc(..., { status: newStatus }) resolved; setOffers(prev => prev.map(...))
toggleStatusOK(w) ==
    /\ mounted = "offers"
    /\ BagIn(w, oWrites) /\ w.kind = "status"
    /\ StoreHas(oStore, w.id)
    /\ oStore' = {IF d.id = w.id THEN [d EXCEPT !.status = w.status] ELSE d : d \in oStore}
    /\ offers' = [k \in 1..Len(offers) |->
                     IF offers[k].id = w.id
                     THEN [offers[k] EXCEPT !.status = w.status]
                     ELSE offers[k]]
    /\ oWrites' = Settle(oWrites, w)
    /\ Untoggled
    /\ UNCHANGED <<aVars, ordVars, homeVars, resVars, pVars, rVars, mounted, ops, oFetching, oEditing,
                   oShowModal, deleteTarget, oNextId>>

\* catch (err): console.error only (every failed write of this screen)
OfferWriteFail(w) ==
    /\ mounted = "offers"
    /\ BagIn(w, oWrites)
    /\ oWrites' = Settle(oWrites, w)
    /\ Untoggled
    /\ UNCHANGED <<aVars, ordVars, homeVars, resVars, pVars, rVars, mounted, ops, oStore, offers, oFetching,
                   oEditing, oShowModal, deleteTarget, oNextId>>

\* the add button: setEditing({ data: {} }); setShowModal(true)
OpenAddOffer ==
    /\ mounted = "offers"
    /\ UserEvent
    /\ OffersClickable
    /\ oEditing' = Offer(0, "unset", 0)
    /\ oShowModal' = TRUE
    /\ FormOpened
    /\ UNCHANGED <<aVars, ordVars, homeVars, resVars, pVars, rVars, mounted, oStore, offers, oFetching,
                   deleteTarget, oWrites, oNextId>>

\* the edit button: setEditing({ id: offer.id, data: offer }); setShowModal(true)
OpenEditOffer(k) ==
    /\ mounted = "offers"
    /\ UserEvent
    /\ OffersClickable
    /\ k \in 1..Len(offers)
    /\ oEditing' = offers[k]
    /\ oShowModal' = TRUE
    /\ Untoggled
    /\ UNCHANGED <<aVars, ordVars, homeVars, resVars, pVars, rVars, mounted, oStore, offers, oFetching,
                   deleteTarget, oWrites, oNextId>>

\* onChange of the modal's inputs: setEditing(prev => prev ? {...} : null)
OfferEditForm(d) ==
    /\ mounted = "offers"
    /\ UserEvent
    /\ oShowModal
    /\ oEditing # NoEditing
    /\ d \in {1, 2} /\ d # oEditing.data
    /\ oEditing' = [oEditing EXCEPT !.data = d]
    /\ Untoggled
    /\ UNCHANGED <<aVars, ordVars, homeVars, resVars, pVars, rVars, mounted, oStore, offers, oFetching,
                   oShowModal, deleteTarget, oWrites, oNextId>>

\* onHide / the cancel button: setShowModal(false)
OfferCloseModal ==
    /\ mounted = "offers"
    /\ UserEvent
    /\ oShowModal
    /\ oShowModal' = FALSE
    /\ Untoggled
    /\ UNCHANGED <<aVars, ordVars, homeVars, resVars, pVars, rVars, mounted, oStore, offers, oFetching,
                   oEditing, deleteTarget, oWrites, oNextId>>

\* status: editing.data.status ?? "inactive"
PayloadStatus(e) == IF e.status = "unset" THEN "inactive" ELSE e.status

\* handleSave up to its await
OfferHandleSave ==
    /\ mounted = "offers"
    /\ UserEvent
    /\ oShowModal
    /\ IF oEditing = NoEditing
       THEN UNCHANGED <<oWrites, oNextId>>
       ELSE IF oEditing.id # 0
            THEN /\ oWrites' = Issue(oWrites, OfferWrite("update",
                        Offer(oEditing.id, PayloadStatus(oEditing), oEditing.data)))
                 /\ UNCHANGED oNextId
            ELSE /\ oWrites' = Issue(oWrites, CreateOf(OfferWrite("create",
                        Offer(oNextId, PayloadStatus(oEditing), oEditing.data))))
                 /\ oNextId' = oNextId + 1
    /\ Untoggled
    /\ UNCHANGED <<aVars, ordVars, homeVars, resVars, pVars, rVars, mounted, oStore, offers, oFetching,
                   oEditing, oShowModal, deleteTarget>>

\* await updateDoc(doc(db, "offers", editing.id), payload) resolved
OfferSaveEditOK(w) ==
    /\ mounted = "offers"
    /\ BagIn(w, oWrites) /\ w.kind = "update"
    /\ StoreHas(oStore, w.id)
    /\ oStore' = {IF d.id = w.id THEN Offer(w.id, w.status, w.data) ELSE d : d \in oStore}
    /\ offers' = [k \in 1..Len(offers) |->
                     IF offers[k].id = w.id
                     THEN Offer(w.id, w.status, w.data)
                     ELSE offers[k]]
    /\ oWrites' = Settle(oWrites, w)
    /\ oShowModal' = FALSE
    /\ oEditing' = NoEditing
    /\ Untoggled
    /\ UNCHANGED <<aVars, ordVars, homeVars, resVars, pVars, rVars, mounted, ops, oFetching, deleteTarget,
                   oNextId>>

\* setOffers((prev) => [...prev, { ...payload, id: docRef.id }])
AppendCreated(prev, o) == prev \o <<o>>

\* const docRef = await addDoc(collection(db, "offers"), payload) resolved
OfferSaveCreateOK(w) ==
    /\ mounted = "offers"
    /\ BagIn(w, oWrites) /\ w.kind = "create"
    /\ oStore' = oStore \cup {Offer(w.id, w.status, w.data)}
    /\ offers' = AppendCreated(offers, Offer(w.id, w.status, w.data))
    /\ oWrites' = Settle(oWrites, w)
    /\ oShowModal' = FALSE
    /\ oEditing' = NoEditing
    /\ Untoggled
    /\ UNCHANGED <<aVars, ordVars, homeVars, resVars, pVars, rVars, mounted, ops, oFetching, deleteTarget,
                   oNextId>>

\* the delete button of a card: setDeleteTarget(offer)
AskDeleteOffer(k) ==
    /\ mounted = "offers"
    /\ UserEvent
    /\ OffersClickable
    /\ k \in 1..Len(offers)
    /\ deleteTarget' = offers[k].id
    /\ Untoggled
    /\ UNCHANGED <<aVars, ordVars, homeVars, resVars, pVars, rVars, mounted, oStore, offers, oFetching,
                   oEditing, oShowModal, oWrites, oNextId>>

\* onHide / the cancel button: setDeleteTarget(null)
CancelDeleteOffer ==
    /\ mounted = "offers"
    /\ UserEvent
    /\ deleteTarget # 0
    /\ deleteTarget' = 0
    /\ Untoggled
    /\ UNCHANGED <<aVars, ordVars, homeVars, resVars, pVars, rVars, mounted, oStore, offers, oFetching,
                   oEditing, oShowModal, oWrites, oNextId>>

\* handleDeleteConfirmed up to its await
handleDeleteConfirmed ==
    /\ mounted = "offers"
    /\ UserEvent
    /\ deleteTarget # 0
    /\ oWrites' = Issue(oWrites, OfferWrite("delete", Offer(deleteTarget, "none", 0)))
    /\ Untoggled
    /\ UNCHANGED <<aVars, ordVars, homeVars, resVars, pVars, rVars, mounted, oStore, offers, oFetching,
                   oEditing, oShowModal, deleteTarget, oNextId>>

\* await deleteDoc(...) resolved; setOffers(prev => prev.filter(...)); setDeleteTarget(null)
OfferDeleteOK(w) ==
    /\ mounted = "offers"
    /\ BagIn(w, oWrites) /\ w.kind = "delete"
    /\ oStore' = {d \in oStore : d.id # w.id}
    /\ offers' = SelectSeq(offers, LAMBDA o : o.id # w.id)
    /\ oWrites' = Settle(oWrites, w)
    /\ deleteTarget' = 0
    /\ Untoggled
    /\ UNCHANGED <<aVars, ordVars, homeVars, resVars, pVars, rVars, mounted, ops, oFetching, oEditing,
                   oShowModal, oNextId>>

\* The screen after its first render and effect: fetchOffers() in flight
InitOffers ==
    /\ toggled = 0
    /\ lastIssue = <<>>
    /\ mounted = "offers"
    /\ ops = 0
    /\ oStore = {Offer(i, IF i = 1 THEN "active" ELSE "inactive", 1) : i \in 1..NumOffers}
    /\ offers = <<>>
    /\ oFetching = TRUE
    /\ oEditing = NoEditing
    /\ oShowModal = FALSE
    /\ deleteTarget = 0
    /\ oWrites = EmptyBag
    /\ oNextId = NumOffers + 1
    /\ IdleProducts
    /\ IdleReviews
    /\ IdleReservation
    /\ IdleGuards
    /\ IdleOrders
    /\ IdleHome

NextOffers ==
    \/ FetchOffersOK
    \/ FetchOffersFail
    \/ \E k \in 1..Len(offers) : toggleStatus(k)
    \/ \E w \in BagToSet(oWrites) : toggleStatusOK(w)
    \/ \E w \in BagToSet(oWrites) : OfferWriteFail(w)
    \/ OpenAddOffer
    \/ \E k \in 1..Len(offers) : OpenEditOffer(k)
    \/ \E d \in {1, 2} : OfferEditForm(d)
    \/ OfferCloseModal
    \/ OfferHandleSave
    \/ \E w \in BagToSet(oWrites) : OfferSaveEditOK(w)
    \/ \E w \in BagToSet(oWrites) : OfferSaveCreateOK(w)
    \/ \E k \in 1..Len(offers) : AskDeleteOffer(k)
    \/ CancelDeleteOffer
    \/ handleDeleteConfirmed
    \/ \E w \in BagToSet(oWrites) : OfferDeleteOK(w)

SpecOffers == InitOffers /\ [][NextOffers]_vars

---------------------------------------------------------------------------
(* pages/Reservation.tsx: each client runs its own copy of the page against
   the shared "reservations" collection *)

\* A user event of client c
ClientEvent(c) ==
    /\ resOps[c] < MaxOps
    /\ resOps' = [resOps EXCEPT ![c] = @ + 1]

\* handleChange on the date and time inputs
handleChange(c, sl) ==
    /\ mounted = "reservation"
    /\ ClientEvent(c)
    /\ sl \in 0..NumSlots /\ sl # formData[c]
    /\ formData' = [formData EXCEPT ![c] = sl]
    /\ Untoggled
    /\ UNCHANGED <<aVars, ordVars, homeVars, oVars, pVars, rVars, mounted, ops, resStore, loading, submitted,
                   errorMsg, pc, held, lastCheck, peerChecked>>

\* handleSubmit up to the await inside checkAvailability.  The form's inputs
\* are required, so the browser submits only a filled form; the button is
\* disabled while loading.
handleSubmit(c) ==
    /\ mounted = "reservation"
    /\ ClientEvent(c)
    /\ ~loading[c]
    /\ formData[c] # 0
    /\ loading' = [loading EXCEPT ![c] = TRUE]
    /\ errorMsg' = [errorMsg EXCEPT ![c] = ""]
    /\ submitted' = [submitted EXCEPT ![c] = FALSE]
    /\ held' = [held EXCEPT ![c] = formData[c]]
    /\ pc' = [pc EXCEPT ![c] = "checking"]
    /\ lastCheck' = [lastCheck EXCEPT ![c] = "none"]
    /\ peerChecked' = [peerChecked EXCEPT ![c] =
           \E a \in Clients \ {c} : /\ pc[a] = "committing"
                                    /\ held[a] = formData[c]]
    /\ Untoggled
    /\ UNCHANGED <<aVars, ordVars, homeVars, oVars, pVars, rVars, mounted, ops, resStore, formData>>

\* return snapshot.empty, for the query where("date", "==", ...),
\* where("time", "==", ...)
\* The availability query answered without looking at the slot
IsAvailableUnchecked(store, sl) == TRUE

IsAvailable(store, sl) == store[sl] = 0

\* The refusal without its return: the message is set and handleSubmit goes on
RefuseWithoutReturn(c) ==
    /\ errorMsg' = [errorMsg EXCEPT ![c] = "booked"]
    /\ loading' = [loading EXCEPT ![c] = FALSE]
    /\ pc' = [pc EXCEPT ![c] = "committing"]

\* if (!isAvailable) { setErrorMsg(...); setLoading(false); return; }
Refuse(c) ==
    /\ errorMsg' = [errorMsg EXCEPT ![c] = "booked"]
    /\ loading' = [loading EXCEPT ![c] = FALSE]
    /\ pc' = [pc EXCEPT ![c] = "idle"]

\* checkAvailability's getDocs resolved; handleSubmit goes on to addDoc or returns
CheckResolved(c) ==
    /\ mounted = "reservation"
    /\ pc[c] = "checking"
    /\ IF IsAvailable(resStore, held[c])
       THEN /\ pc' = [pc EXCEPT ![c] = "committing"]
            /\ lastCheck' = [lastCheck EXCEPT ![c] = "available"]
            /\ UNCHANGED <<errorMsg, loading>>
       ELSE /\ Refuse(c)
            /\ lastCheck' = [lastCheck EXCEPT ![c] = "conflict"]
    /\ Untoggled
    /\ UNCHANGED <<aVars, ordVars, homeVars, oVars, pVars, rVars, mounted, ops, resStore, formData,
                   submitted, held, peerChecked, resOps>>

\* checkAvailability's getDocs rejected: catch (err) { return false; }
CheckFailed(c) ==
    /\ mounted = "reservation"
    /\ pc[c] = "checking"
    /\ Refuse(c)
    /\ lastCheck' = [lastCheck EXCEPT ![c] = "failed"]
    /\ Untoggled
    /\ UNCHANGED <<aVars, ordVars, homeVars, oVars, pVars, rVars, mounted, ops, resStore, formData,
                   submitted, held, peerChecked, resOps>>

\* await addDoc(collection(db, "reservations"), {...formData}) resolved
CommitOK(c) ==
    /\ mounted = "reservation"
    /\ pc[c] = "committing"
    /\ resStore' = [resStore EXCEPT ![held[c]] = @ + 1]
    /\ submitted' = [submitted EXCEPT ![c] = TRUE]
    /\ formData' = [formData EXCEPT ![c] = 0]
    /\ loading' = [loading EXCEPT ![c] = FALSE]
    /\ pc' = [pc EXCEPT ![c] = "idle"]
    /\ Untoggled
    /\ UNCHANGED <<aVars, ordVars, homeVars, oVars, pVars, rVars, mounted, ops, errorMsg, held, lastCheck, peerChecked,
                   resOps>>

\* The catch without the finally: loading stays true
CommitFailedNoFinally(c) ==
    /\ mounted = "reservation"
    /\ pc[c] = "committing"
    /\ errorMsg' = [errorMsg EXCEPT ![c] = "failed"]
    /\ pc' = [pc EXCEPT ![c] = "idle"]
    /\ Untoggled
    /\ UNCHANGED <<aVars, ordVars, homeVars, oVars, pVars, rVars, mounted, ops, resStore, formData,
                   submitted, held, lastCheck, peerChecked, resOps, loading>>

\* catch (err): setErrorMsg(...); finally setLoading(false)
CommitFailed(c) ==
    /\ mounted = "reservation"
    /\ pc[c] = "committing"
    /\ errorMsg' = [errorMsg EXCEPT ![c] = "failed"]
    /\ loading' = [loading EXCEPT ![c] = FALSE]
    /\ pc' = [pc EXCEPT ![c] = "idle"]
    /\ Untoggled
    /\ UNCHANGED <<aVars, ordVars, homeVars, oVars, pVars, rVars, mounted, ops, resStore, formData,
                   submitted, held, lastCheck, peerChecked, resOps>>

InitReservation ==
    /\ toggled = 0
    /\ lastIssue = <<>>
    /\ mounted = "reservation"
    /\ ops = 0
    /\ resStore = [sl \in 1..NumSlots |-> 0]
    /\ FreshReservation
    /\ IdleProducts
    /\ IdleReviews
    /\ IdleOffers
    /\ IdleGuards
    /\ IdleOrders
    /\ IdleHome

NextReservation ==
    \/ \E c \in Clients, sl \in 0..NumSlots : handleChange(c, sl)
    \/ \E c \in Clients : handleSubmit(c)
    \/ \E c \in Clients : CheckResolved(c)
    \/ \E c \in Clients : CheckFailed(c)
    \/ \E c \in Clients : CommitOK(c)
    \/ \E c \in Clients : CommitFailed(c)

SpecReservation == InitReservation /\ [][NextReservation]_vars

---------------------------------------------------------------------------
(* layouts/DashboardLayout.tsx and components/ProtectedRoute.tsx: the two
   guards of the dashboard routes.  Each subscribes its own listener with
   onAuthStateChanged; a listener's call sets two pieces of state one after
   the other, and the component may be rendered between the two. *)

\* DashboardLayout renders the sidebar, header and <Outlet />
LayoutContent == ~dlLoading /\ isAuthenticated

\* ProtectedRoute renders its children
RouteContent == ~prLoading /\ SignedIn(user)

\* DashboardLayout's listener up to the first render it may cause:
\* setIsAuthenticated(true), or setIsAuthenticated(false); navigate("/login")
DashboardAuthChanged(u) ==
    /\ mounted = "guards"
    /\ authCb = "none"
    /\ isAuthenticated' = SignedIn(u)
    /\ location' = IF SignedIn(u) THEN location ELSE "/login"
    /\ authCb' = "DashboardLayout"
    /\ authSeen' = [authSeen EXCEPT !["DashboardLayout"] = u]
    /\ Untoggled
    /\ UNCHANGED <<ordVars, homeVars, pVars, rVars, oVars, resVars, mounted, ops, dlLoading, prLoading, user>>

\* the listener's setLoading(false)
DashboardAuthSettled ==
    /\ mounted = "guards"
    /\ authCb = "DashboardLayout"
    /\ dlLoading' = FALSE
    /\ authCb' = "none"
    /\ Untoggled
    /\ UNCHANGED <<ordVars, homeVars, pVars, rVars, oVars, resVars, mounted, ops, isAuthenticated, prLoading, user,
                   location, authSeen>>

\* ProtectedRoute's listener up to the first render it may cause:
\* setUser(firebaseUser); a render with loading false and no user returns
\* <Navigate to="/login" replace />
ProtectedAuthChanged(u) ==
    /\ mounted = "guards"
    /\ authCb = "none"
    /\ user' = u
    /\ location' = IF ~prLoading /\ ~SignedIn(u) THEN "/login" ELSE location
    /\ authCb' = "ProtectedRoute"
    /\ authSeen' = [authSeen EXCEPT !["ProtectedRoute"] = u]
    /\ Untoggled
    /\ UNCHANGED <<ordVars, homeVars, pVars, rVars, oVars, resVars, mounted, ops, dlLoading, isAuthenticated,
                   prLoading>>

\* the listener's setLoading(false), and the render that follows
ProtectedAuthSettled ==
    /\ mounted = "guards"
    /\ authCb = "ProtectedRoute"
    /\ prLoading' = FALSE
    /\ location' = IF ~SignedIn(user) THEN "/login" ELSE location
    /\ authCb' = "none"
    /\ Untoggled
    /\ UNCHANGED <<ordVars, homeVars, pVars, rVars, oVars, resVars, mounted, ops, dlLoading, isAuthenticated, user,
                   authSeen>>

\* AdminLogin: navigate("/dashboard") after signing in; the guards mount anew
EnterDashboard ==
    /\ mounted = "guards"
    /\ authCb = "none"
    /\ location = "/login"
    /\ location' = "/dashboard"
    /\ dlLoading' = TRUE
    /\ isAuthenticated' = FALSE
    /\ prLoading' = TRUE
    /\ user' = "null"
    /\ authSeen' = [l \in Listeners |-> "unknown"]
    /\ Untoggled
    /\ UNCHANGED <<ordVars, homeVars, pVars, rVars, oVars, resVars, mounted, ops, authCb>>

InitGuards ==
    /\ toggled = 0
    /\ lastIssue = <<>>
    /\ mounted = "guards"
    /\ ops = 0
    /\ FreshGuards
    /\ location = "/dashboard"
    /\ IdleProducts
    /\ IdleReviews
    /\ IdleOffers
    /\ IdleReservation
    /\ IdleOrders
    /\ IdleHome

NextGuards ==
    \/ \E u \in Users : DashboardAuthChanged(u)
    \/ DashboardAuthSettled
    \/ \E u \in Users : ProtectedAuthChanged(u)
    \/ ProtectedAuthSettled
    \/ EnterDashboard

(* OrdersManagement (components/dashboard/ReviewsManagement.tsx): the items
   of the order in the add/edit modal.  The handlers call
   setEditingOrder(value) with a value built from the editingOrder of the
   render they run in; of several calls in one event the last one is the
   state of the next render. *)

\* The products fetched for the select: { id, name, price }
Catalogue == {[id |-> i, name |-> i, price |-> 10 * i] : i \in 1..NumCatalogue}

Quantities == {1, 2}

\* The value updateItem passes to setEditingOrder
updateItem(order, itemId, field, value) ==
    [order EXCEPT !.items =
        [k \in 1..Len(order.items) |->
            IF order.items[k].id = itemId
            THEN [order.items[k] EXCEPT ![field] = value]
            ELSE order.items[k]]]

\* The state after setEditingOrder(v1); ...; setEditingOrder(vn) in one event
LastSet(values) == values[Len(values)]

\* addItem: a new item with id Date.now().toString()
addItem ==
    /\ mounted = "orders"
    /\ UserEvent
    /\ editingOrder' = [editingOrder EXCEPT
                           !.items = Append(@, OrderItem(ordNextId, 0, 0, 0, 1))]
    /\ ordNextId' = ordNextId + 1
    /\ Untoggled
    /\ UNCHANGED <<homeVars, aVars, pVars, rVars, oVars, resVars, mounted>>

\* removeItem(item.id)
removeItem(k) ==
    /\ mounted = "orders"
    /\ UserEvent
    /\ k \in 1..Len(editingOrder.items)
    /\ editingOrder' = [editingOrder EXCEPT
                           !.items = SelectSeq(@, LAMBDA i : i.id # editingOrder.items[k].id)]
    /\ Untoggled
    /\ UNCHANGED <<homeVars, aVars, pVars, rVars, oVars, resVars, mounted, ordNextId>>

\* the select's onChange: three updateItem calls on the item of row k
SelectProduct(k, selected) ==
    /\ mounted = "orders"
    /\ UserEvent
    /\ k \in 1..Len(editingOrder.items)
    /\ LET item == editingOrder.items[k]
       IN  editingOrder' = LastSet(<<
               updateItem(editingOrder, item.id, "productId", selected.id),
               updateItem(editingOrder, item.id, "name", selected.name),
               updateItem(editingOrder, item.id, "price", selected.price)>>)
    /\ Untoggled
    /\ UNCHANGED <<homeVars, aVars, pVars, rVars, oVars, resVars, mounted, ordNextId>>

\* the quantity input's onChange
SetQuantity(k, q) ==
    /\ mounted = "orders"
    /\ UserEvent
    /\ k \in 1..Len(editingOrder.items)
    /\ editingOrder' = updateItem(editingOrder, editingOrder.items[k].id, "quantity", q)
    /\ Untoggled
    /\ UNCHANGED <<homeVars, aVars, pVars, rVars, oVars, resVars, mounted, ordNextId>>

InitOrders ==
    /\ toggled = 0
    /\ lastIssue = <<>>
    /\ mounted = "orders"
    /\ ops = 0
    /\ IdleOrders
    /\ IdleProducts
    /\ IdleReviews
    /\ IdleOffers
    /\ IdleReservation
    /\ IdleGuards
    /\ IdleHome

NextOrders ==
    \/ addItem
    \/ \E k \in 1..Len(editingOrder.items) : removeItem(k)
    \/ \E k \in 1..Len(editingOrder.items), selected \in Catalogue : SelectProduct(k, selected)
    \/ \E k \in 1..Len(editingOrder.items), q \in Quantities : SetQuantity(k, q)

(* pages/Home.tsx: the three carousels of the home page, each with its start
   index, its cards per view and the list its effect loads once *)

\* What a list can hold once loaded
LoadCounts == {0, 1, NumCards}

\* Math.max(0, products.length - productCardsPerView), and likewise for the
\* offers and the reviews
maxStart(c) == IF itemCount[c] - cardsPerView[c] > 0
               THEN itemCount[c] - cardsPerView[c] ELSE 0

\* setProducts(data) / setOffers(data) / setReviews(data)
HomeDataLoaded(c, n) ==
    /\ mounted = "home"
    /\ c \in homeFetching
    /\ itemCount' = [itemCount EXCEPT ![c] = n]
    /\ homeFetching' = homeFetching \ {c}
    /\ Untoggled
    /\ UNCHANGED <<ordVars, aVars, pVars, rVars, oVars, resVars, mounted, ops, startIndex,
                   cardsPerView>>

\* catch (error): console.error
HomeDataFailed(c) ==
    /\ mounted = "home"
    /\ c \in homeFetching
    /\ homeFetching' = homeFetching \ {c}
    /\ Untoggled
    /\ UNCHANGED <<ordVars, aVars, pVars, rVars, oVars, resVars, mounted, ops, startIndex,
                   cardsPerView, itemCount>>

\* handleResize on a resize that crosses 768px
handleResize(narrow) ==
    /\ mounted = "home"
    /\ UserEvent
    /\ cardsPerView # [c \in Carousels |-> CardsFor(c, narrow)]
    /\ cardsPerView' = [c \in Carousels |-> CardsFor(c, narrow)]
    /\ Untoggled
    /\ UNCHANGED <<ordVars, aVars, pVars, rVars, oVars, resVars, mounted, startIndex,
                   itemCount, homeFetching>>

\* the < button, disabled at start index 0: Math.max(prev - 1, 0)
PreviousClick(c) ==
    /\ mounted = "home"
    /\ UserEvent
    /\ startIndex[c] # 0
    /\ startIndex' = [startIndex EXCEPT ![c] = IF @ - 1 > 0 THEN @ - 1 ELSE 0]
    /\ Untoggled
    /\ UNCHANGED <<ordVars, aVars, pVars, rVars, oVars, resVars, mounted, cardsPerView,
                   itemCount, homeFetching>>

\* the > button, disabled from the maximal start on: Math.min(prev + 1, max)
NextClick(c) ==
    /\ mounted = "home"
    /\ UserEvent
    /\ ~(startIndex[c] >= maxStart(c))
    /\ startIndex' = [startIndex EXCEPT ![c] = Min(@ + 1, maxStart(c))]
    /\ Untoggled
    /\ UNCHANGED <<ordVars, aVars, pVars, rVars, oVars, resVars, mounted, cardsPerView,
                   itemCount, homeFetching>>

\* The page after its first render and effects: the three queries in flight,
\* the first handleResize() done
InitHome ==
    /\ toggled = 0
    /\ lastIssue = <<>>
    /\ mounted = "home"
    /\ ops = 0
    /\ startIndex = [c \in Carousels |-> 0]
    /\ \E narrow \in BOOLEAN : cardsPerView = [c \in Carousels |-> CardsFor(c, narrow)]
    /\ itemCount = [c \in Carousels |-> 0]
    /\ homeFetching = Carousels
    /\ IdleOrders
    /\ IdleProducts
    /\ IdleReviews
    /\ IdleOffers
    /\ IdleReservation
    /\ IdleGuards

NextHome ==
    \/ \E c \in Carousels, n \in LoadCounts : HomeDataLoaded(c, n)
    \/ \E c \in Carousels : HomeDataFailed(c)
    \/ \E narrow \in BOOLEAN : handleResize(narrow)
    \/ \E c \in Carousels : PreviousClick(c)
    \/ \E c \in Carousels : NextClick(c)

(* The application with one of its pages mounted *)

Init ==
    InitProducts \/ InitReviews \/ InitOffers \/ InitReservation \/ InitGuards \/ InitOrders
    \/ InitHome

Next ==
    NextProducts \/ NextReviews \/ NextOffers \/ NextReservation \/ NextGuards \/ NextOrders
    \/ NextHome

Spec == Init /\ [][Next]_vars

\* A listener that has started runs to its end (a JavaScript callback runs to
\* completion)
ListenerCompletes == DashboardAuthSettled \/ ProtectedAuthSettled

\* The application with a store that may withhold any answer for ever: the
\* handlers put no timer around getDocs, updateDoc, addDoc or deleteDoc, so
\* nothing but the store's answer resumes a suspended handler, and fairness is
\* stated only for the steps the program takes by itself.
SpecSilentStore == Spec /\ WF_vars(ListenerCompletes)


\* ---------------------------------------------------------------------------
\* Properties
\* ---------------------------------------------------------------------------

\* Where entity i stands in a list: its indexes, each with the fields there
EntityView(list, i) ==
    {<<k, list[k]>> : k \in {j \in 1..Len(list) : list[j].id = i}}

\* C1: rollback of update mutations.  When the remote write of a featured
\* toggle fails (the step in which its catch runs), or when the write of an
\* edit has failed and handleSave returns (the step in which the
\* fetchProducts() of its catch resolves), product P, which was in the visible
\* list when the handler was called, is in the list at the same index with the
\* same fields as at that call.
C1_RollbackOnFailedUpdate ==
    [][\A w \in BagToSet(pWrites) :
          ( /\ pWrites' = Settle(pWrites, w)
            /\ w.id \in Ids(w.snap)
            /\ \/ w.kind = "toggle" /\ toast' = "toggleFailed"
               \/ w.kind = "refetch" )
          => EntityView(products', w.id) = EntityView(w.snap, w.id)]_vars

\* C2: featured cap.  In every reachable state the visible list of the
\* products screen holds at most MAX_FEATURED featured products and the
\* visible list of the reviews screen at most REVIEWS_LIMIT featured reviews.
C2_FeaturedCap ==
    /\ FeaturedCount(products) <= MAX_FEATURED
    /\ FeaturedCount(reviews) <= REVIEWS_LIMIT

\* C3: per-entity serialization.  When a toggle M2 is issued for an entity
\* whose previous toggle M1 is still in flight, M2 writes the opposite of what
\* M1 writes (it is computed from M1's result), on the offers, products and
\* reviews screens alike.
C3_SerializedToggles ==
    /\ \A w1, w2 \in BagToSet(oWrites) :
          ( /\ w1.kind = "status" /\ w2.kind = "status"
            /\ w2.id = w1.id /\ w2.prev = w1.at )
          => w2.status # w1.status
    /\ \A w1, w2 \in BagToSet(pWrites) :
          ( /\ w1.kind = "toggle" /\ w2.kind = "toggle"
            /\ w2.id = w1.id /\ w2.prev = w1.at )
          => w2.val # w1.val
    /\ \A w1, w2 \in BagToSet(rWrites) :
          (w2.id = w1.id /\ w2.prev = w1.at) => w2.val # w1.val

\* The order of C4: createdAt descending, ties by ascending id
TieAscendingBefore(a, b) ==
    \/ a.createdAt > b.createdAt
    \/ a.createdAt = b.createdAt /\ a.id < b.id

RECURSIVE TieAscendingOrder(_)
TieAscendingOrder(S) ==
    IF S = {} THEN <<>>
    ELSE LET m == CHOOSE x \in S : \A y \in S \ {x} : TieAscendingBefore(x, y)
         IN  <<m>> \o TieAscendingOrder(S \ {m})

\* The cursor is exhausted: a first page has been fetched, no cursor is left
\* and no loadMore is in flight.
CursorExhausted ==
    /\ mounted = "products"
    /\ fetchDone >= 1
    /\ lastDoc = NoDoc
    /\ loadCursor = NoDoc
    /\ ~loadingMore

\* C4: pagination totality.  Over a collection that does not change, once the
\* cursor is exhausted the accumulated list is the whole collection, every
\* document once, in descending createdAt with ties by ascending id.
C4_PaginationTotality ==
    CursorExhausted =>
        products = [k \in 1..Cardinality(pStore) |->
                       normalizeDoc(TieAscendingOrder(pStore)[k])]

\* C5, as stated: an attempt B submitted for a slot while another attempt A
\* for that slot has had its availability check answered (A is committing)
\* never gets to its own commit: B's check reports the slot taken.
C5_ConflictAfterPeerCheck ==
    \A b \in Clients : peerChecked[b] => pc[b] # "committing"

\* C5, amended: when the availability check of an attempt is answered while
\* the store already holds a reservation for the slot (another attempt's
\* addDoc has completed), the attempt is refused as already booked and writes
\* nothing.
C5_ConflictAfterPeerCommit ==
    [][\A b \in Clients :
          ( /\ pc[b] = "checking"
            /\ pc'[b] # "checking"
            /\ resStore[held[b]] > 0 )
          => /\ pc'[b] = "idle"
             /\ errorMsg'[b] = "booked"
             /\ resStore' = resStore]_vars

\* A client was told the slot is booked after another client's reservation
\* for that slot was stored.
C5_Witness ==
    \E b \in Clients :
        /\ lastCheck[b] = "conflict"
        /\ errorMsg[b] = "booked"
        /\ \E a \in Clients \ {b} : submitted[a] /\ held[a] = held[b]
        /\ resStore[held[b]] = 1

C8_FeaturedLimitRefusal ==
    [][/\ ( /\ mounted = "products"
            /\ toggled' # 0
            /\ \E k \in 1..Len(products) :
                  products[k].id = toggled' /\ ~products[k].featured
            /\ FeaturedCount(products) >= MAX_FEATURED )
          => /\ toast' = "featuredLimit"
             /\ UNCHANGED <<products, pStore, pWrites>>
       /\ ( /\ mounted = "reviews"
            /\ toggled' # 0
            /\ ~selectedReview.featured
            /\ FeaturedCount(reviews) >= REVIEWS_LIMIT )
          => /\ rAlert' = "limit"
             /\ UNCHANGED <<reviews, rStore, rWrites>>]_vars

\* The toggle of a product that is not featured was just refused with the
\* list at the limit.
C8_Witness ==
    /\ mounted = "products"
    /\ toggled # 0
    /\ toast = "featuredLimit"
    /\ FeaturedCount(products) = MAX_FEATURED
    /\ \E k \in 1..Len(products) :
          products[k].id = toggled /\ ~products[k].featured

\* C9: reviews limit of 3.  When the featured toggle of the reviews screen
\* runs on a review that is not featured while the local list holds 3 or more
\* featured reviews, the step issues no write, changes neither the local list
\* nor the store, and alerts the user.
C9_ReviewsLimitOfThree ==
    [][( /\ mounted = "reviews"
         /\ toggled' # 0
         /\ ~selectedReview.featured
         /\ FeaturedCount(reviews) >= 3 )
       => /\ rAlert' = "limit"
          /\ UNCHANGED <<reviews, rStore, rWrites>>]_vars

\* C10: availability-check failure.  An attempt whose availability query
\* failed is not told that the slot is already booked, and does not go on to
\* write a reservation.
C10_CheckFailureIsUnknown ==
    \A c \in Clients :
        lastCheck[c] = "failed" =>
            /\ errorMsg[c] # "booked"
            /\ pc[c] # "committing"

\* C11: check before commit.  An attempt starts its reservation write only in
\* the step in which its own availability query is answered, and only when the
\* store then holds no reservation for the attempt's slot; the store gains a
\* reservation only from an attempt so cleared, for its slot; an attempt whose
\* query is answered while the slot is taken ends refused and writes nothing.
C11_CheckBeforeCommit ==
    [][/\ \A c \in Clients :
            /\ (pc'[c] = "committing" /\ pc[c] # "committing")
               => /\ pc[c] = "checking"
                  /\ resStore[held[c]] = 0
                  /\ lastCheck'[c] = "available"
            /\ (pc[c] = "checking" /\ pc'[c] # "checking"
                  /\ resStore[held[c]] > 0)
               => /\ pc'[c] = "idle"
                  /\ lastCheck'[c] # "available"
                  /\ resStore' = resStore
       /\ resStore' # resStore
          => \E c \in Clients :
                /\ pc[c] = "committing"
                /\ lastCheck[c] = "available"
                /\ resStore' = [resStore EXCEPT ![held[c]] = @ + 1]]_vars

\* An attempt was cleared by its check and its reservation is stored, and
\* another attempt for the same slot was refused by its check.
C11_Witness ==
    \E a \in Clients, b \in Clients :
        /\ a # b
        /\ submitted[a] /\ lastCheck[a] = "available"
        /\ resStore[held[a]] = 1
        /\ held[b] = held[a]
        /\ lastCheck[b] = "conflict" /\ pc[b] = "idle" /\ ~submitted[b]

\* C12: createdAt immutability.  No step changes the createdAt of a product
\* that exists before and after it, neither in the store nor in the local
\* list.
C12_CreatedAtImmutable ==
    [][/\ \A d \in pStore, e \in pStore' :
            d.id = e.id => e.createdAt = d.createdAt
       /\ \A j \in 1..Len(products), k \in 1..Len(products') :
            products[j].id = products'[k].id
               => products'[k].createdAt = products[j].createdAt]_vars

\* C13: cursor exhaustion on a short page.  When the first fetchProducts to
\* resolve, or a loadMore, is answered with fewer than PAGE_SIZE documents, the
\* cursor is exhausted (so the load button, shown only for a live cursor,
\* starts no further query).
C13_ShortPageExhausts ==
    [][/\ (fetchDone' # fetchDone /\ Len(products') < PAGE_SIZE)
          => lastDoc' = NoDoc
       /\ ( /\ loadingMore /\ ~loadingMore'
            /\ Len(products') > Len(products)
            /\ Len(products') - Len(products) < PAGE_SIZE )
          => lastDoc' = NoDoc]_vars

\* C14: loading past the end.  With the cursor exhausted no loadMore query is
\* started; a loadMore that is answered with documents leaves the list it
\* finds in place and appends to it exactly the next PAGE_SIZE documents
\* strictly after the cursor it was called with, none of which is in the list
\* already.
C14_LoadMoreContract ==
    [][/\ lastDoc = NoDoc
          => /\ ~(loadingMore' /\ ~loadingMore)
             /\ loadCursor' # NoDoc => loadCursor' = loadCursor
       /\ (loadingMore /\ ~loadingMore' /\ products' # products)
          => /\ Len(products') > Len(products)
             /\ SubSeq(products', 1, Len(products)) = products
             /\ LET added == SubSeq(products', Len(products) + 1, Len(products'))
                    next == Take(Ordered({d \in pStore : Before(loadCursor, d)}),
                                 PAGE_SIZE)
                IN  /\ added = [i \in 1..Len(next) |-> normalizeDoc(next[i])]
                    /\ Ids(added) \cap Ids(products) = {}]_vars

\* The writes of a bag that are mutations of entities (not the re-fetch of a
\* failed save)
MutationWrites(bag) == {w \in BagToSet(bag) : w.kind # "refetch"}

\* At most one write in flight per entity id in a bag
OnePendingPerEntity(bag) ==
    \A w1, w2 \in MutationWrites(bag) :
        w1.id = w2.id => (w1 = w2 /\ CopiesIn(w1, bag) = 1)

\* C15: FIFO commit order per entity.  A second write for an entity id is not
\* sent while a first one for that id is pending: on the products, offers and
\* reviews screens at most one write per entity is in flight at any time.
C15_OnePendingWritePerEntity ==
    /\ OnePendingPerEntity(pWrites)
    /\ OnePendingPerEntity(oWrites)
    /\ OnePendingPerEntity(rWrites)

\* Every entry of a list under id i has featured = v
ShowsFeatured(list, i, v) ==
    \A k \in 1..Len(list) : list[k].id = i => list[k].featured = v

OneCreatePerForm(bag) ==
    \A w1 \in BagToSet(bag), w2 \in BagToSet(bag) :
        (w1.kind = "create" /\ w2.kind = "create" /\ w1.prev = w2.prev)
            => (w1 = w2 /\ CopiesIn(w1, bag) = 1)

\* C17 (No duplicate create): for one add action (one opening of the add form)
\* at most one remote create is outstanding at any time, on the products
\* screen and on the offers screen, however often Save is invoked.
C17_NoDuplicateCreate ==
    OneCreatePerForm(pWrites) /\ OneCreatePerForm(oWrites)


\* A mutation write of the products screen is in flight
WritePending == MutationWrites(pWrites) # {}

\* C18 (Bounded pending time): every mutation eventually ends, confirmed or
\* rolled back, even when the store never answers its write.  A session issues
\* at most MaxOps mutations, so once a write is in flight a moment follows at
\* which none is.
C18_BoundedPendingTime == WritePending ~> ~WritePending


\* The toasts that report a failure on the products screen
FailureToasts == {"fetchFailed", "loadMoreFailed", "toggleFailed", "saveFailed", "deleteFailed"}

\* What the offers screen shows
OffersShown == <<offers, oEditing, oShowModal, deleteTarget>>

\* C19 (Failures are surfaced): every failed remote write or failed page load
\* produces a user-visible error report: a failure toast on the products
\* screen, an alert on the reviews screen, and on the offers screen, which has
\* neither, at least some change of what is shown.
C19_FailuresSurfaced ==
    [][/\ (\/ FetchProductsFail
            \/ LoadMoreFail
            \/ \E w \in BagToSet(pWrites) :
                  \/ ToggleFeaturedFail(w)
                  \/ SaveFail(w)
                  \/ SaveRefetchFail(w)
                  \/ DeleteFail(w))
          => toast' \in FailureToasts
       /\ (FetchReviewsFail \/ \E w \in BagToSet(rWrites) : ReviewToggleFail(w))
          => rAlert' \notin {"none", "limit"}
       /\ (FetchOffersFail \/ \E w \in BagToSet(oWrites) : OfferWriteFail(w))
          => OffersShown' # OffersShown]_vars


\* C20 (Dashboard protection): under any sequence of auth-state callbacks a
\* guard renders dashboard content only when its most recent callback
\* delivered a signed-in user (never while the auth state is unknown, never
\* after a callback without a user), and once a callback without a user has
\* run to its end the router is at /login.
C20_DashboardProtection ==
    /\ LayoutContent => authSeen["DashboardLayout"] \in Users \ {"null"}
    /\ RouteContent => authSeen["ProtectedRoute"] \in Users \ {"null"}
    /\ \A l \in Listeners :
          (authCb = "none" /\ authSeen[l] = "null") => location = "/login"

\* ProtectedRoute shows its children after a signed-in callback while
\* DashboardLayout, whose last callback had no user, shows nothing and has
\* navigated to /login
C20_Witness ==
    /\ mounted = "guards"
    /\ authCb = "none"
    /\ RouteContent
    /\ authSeen["DashboardLayout"] = "null"
    /\ ~dlLoading
    /\ ~LayoutContent
    /\ location = "/login"


\* C21 (Stable accumulated list): after the first load, an answer to
\* fetchProducts that no user action asked for (the effect ran again after a
\* render) keeps every entry already in the accumulated list at its place and
\* leaves the cursor alone.
C21_StableAccumulatedList ==
    [][(FetchProductsOK /\ fetchDone > 0)
          => /\ Len(products') >= Len(products)
             /\ \A k \in 1..Len(products) : products'[k].id = products[k].id
             /\ lastDoc' = lastDoc]_vars


\* C22 (Unique ids in the visible list): no two entries of the local products
\* list have the same id.
C22_UniqueIdsInList ==
    \A j, k \in 1..Len(products) : products[j].id = products[k].id => j = k


\* How product y is shown in a list: its entries there (none if not shown)
ShownAs(list, y) == {list[k] : k \in {j \in 1..Len(list) : list[j].id = y}}

\* C23 (Rollback is local to its entity): when the delete of product X is
\* rejected and rolled back, or a rejected save of X has reloaded the first
\* page, every other product of the list is shown after the step as it was
\* shown before.
C23_RollbackIsLocal ==
    [][\A w \in BagToSet(pWrites) :
          (DeleteFail(w) \/ SaveRefetchOK(w))
             => \A y \in Ids(products) \ {w.id} :
                   ShownAs(products', y) = ShownAs(products, y)]_vars


\* C24 (Edit leaves the featured flag alone): saving an edit of a product
\* changes its featured flag neither in the local list, when handleSave runs,
\* nor in the store, when its updateDoc is applied.
C24_EditKeepsFeatured ==
    [][/\ (handleSave /\ editing # 0 /\ form # 0)
          => \A k \in 1..Len(products) :
                products[k].id = editing
                   => products'[k].featured = products[k].featured
       /\ \A w \in BagToSet(pWrites) :
             SaveEditOK(w)
                => \A d \in pStore, e \in pStore' :
                      (d.id = w.id /\ e.id = w.id) => e.featured = d.featured]_vars


\* C25 (Store-side cap with one client): the number of featured products in
\* the store's products collection never exceeds MAX_FEATURED.
C25_StoreFeaturedCap ==
    Cardinality({d \in pStore : d.featured}) <= MAX_FEATURED


\* C26 (Quiescence after mount): with no user action and no rejected query,
\* the mounted products screen eventually has no fetchProducts query in flight.
C26_QuiescenceAfterMount ==
    <>(ops > 0 \/ toast # "none" \/ fetching = 0)


\* C27 (Reservation outcome consistency): for every client of the reservation
\* page, the success flag and a non-empty error message are never set
\* together; the success flag is set only by the step in which the attempt's
\* addDoc succeeds and is shown only while no attempt is running; and loading
\* is true exactly while an attempt is running.
C27_OutcomeConsistency ==
    /\ [](\A c \in Clients :
            /\ ~(submitted[c] /\ errorMsg[c] # "")
            /\ submitted[c] => (pc[c] = "idle" /\ lastCheck[c] = "available")
            /\ loading[c] <=> pc[c] # "idle")
    /\ [][\A c \in Clients :
            (submitted'[c] /\ ~submitted[c])
               => /\ pc[c] = "committing"
                  /\ resStore'[held[c]] = resStore[held[c]] + 1]_vars

\* One client's attempt has succeeded and shows the success flag, the other
\* client's attempt for the same slot has ended with the conflict message
C27_Witness ==
    /\ submitted["A"] /\ errorMsg["A"] = "" /\ ~loading["A"]
    /\ errorMsg["B"] = "booked" /\ ~submitted["B"] /\ ~loading["B"]
    /\ pc["B"] = "idle" /\ lastCheck["B"] = "conflict"


\* C28 (Failed page load changes nothing): when the query of loadMore is
\* rejected, the step leaves the accumulated list as it is, loadingMore is
\* false again, and the cursor is the one the failed call started from, so
\* that a later loadMore asks for the same page again.
C28_FailedLoadMoreChangesNothing ==
    [][LoadMoreFail
          => /\ products' = products
             /\ ~loadingMore'
             /\ lastDoc' = loadCursor]_vars


\* C29 (Order item product selection): after a product is chosen in the
\* select of an order item, that item's productId, name and price are those of
\* the chosen product and every other item of the order is unchanged.
C29_ProductSelection ==
    [][\A k \in 1..Len(editingOrder.items), selected \in Catalogue :
          SelectProduct(k, selected)
             => /\ Len(editingOrder'.items) = Len(editingOrder.items)
                /\ editingOrder'.items[k].productId = selected.id
                /\ editingOrder'.items[k].name = selected.name
                /\ editingOrder'.items[k].price = selected.price
                /\ \A j \in 1..Len(editingOrder.items) :
                      j # k => editingOrder'.items[j] = editingOrder.items[j]]_vars


\* C30 (Carousel window bounds): for each carousel of the home page the start
\* index satisfies 0 <= startIndex <= max(0, itemCount - cardsPerView).
C30_CarouselWindowBounds ==
    \A c \in Carousels : 0 <= startIndex[c] /\ startIndex[c] <= maxStart(c)

====
